---------------------------- MODULE Spec2Model ----------------------------
(***************************************************************************)
(* WFS inventory dashboard (kh0ttab/wfs): the token provider, the          *)
(* paginated inventory fetcher, the sales fetcher, the timed cache around  *)
(* both fetchers, and the reconciliation rules.                            *)
(*                                                                         *)
(* The two source files are two deployments of the same fetchers:          *)
(* src/app.py (safety ceiling 15000) and src/walmart_api.py (10000).       *)
(***************************************************************************)
EXTENDS Integers, Sequences, FiniteSets, TLC

(***************************************************************************)
(* Program constants.                                                      *)
(***************************************************************************)
limit == 50
CeilingApp == 15000
CeilingApi == 10000
InventoryTTL == 1800
SalesTTL == 3600
WindowDays == 7
Sentinel == 999
WarningMargin == 7

(***************************************************************************)
(* Bounds of the model.                                                    *)
(***************************************************************************)
MaxItems == 120
MaxLines == 2
MaxCalls == 3
MaxClock == 4500
HugeTotal == 1000000

VARIABLES
    deployment,     \* "app" | "walmart_api": which source file runs
    secrets,        \* TRUE iff st.secrets holds walmart.client_id/client_secret
    srv,            \* the marketplace: what it reports and what it holds
    now,            \* the clock the cache reads, in seconds
    cache,          \* st.cache_data: one entry per cached fetcher
    callsLeft,      \* invocations the page may still make
    fn,             \* the fetcher last invoked: "none" | "inventory" | "sales"
    pc,             \* where the running fetcher stands
    offset,         \* fetch_wfs_inventory: offset
    total_count,    \* fetch_wfs_inventory: total_count
    all_items,      \* fetch_wfs_inventory: all_items
    requests,       \* HTTP requests issued by the current invocation, in order
    outcome,        \* "none" | "returned" | "halted" (st.stop)
    result,         \* the rows of the DataFrame returned
    cacheHit,       \* TRUE iff the last invocation was answered by the cache
    ui,             \* st.error / st.warning messages shown by the invocation
    recon           \* the reconciliation engine's input and output

vars == << deployment, secrets, srv, now, cache, callsLeft, fn, pc, offset,
           total_count, all_items, requests, outcome, result, cacheHit, ui,
           recon >>

Deployments == {"app", "walmart_api"}

Ceiling(dep) == IF dep = "app" THEN CeilingApp ELSE CeilingApi

Min(a, b) == IF a < b THEN a ELSE b

(***************************************************************************)
(* The marketplace.  Item i of the listing is fixed by its index; the six  *)
(* shapes cover an absent ship-node list, an empty one, one node, one node *)
(* without availToSellQty, several nodes, and an item without sku.         *)
(***************************************************************************)
ShipNode(q) == [hasQty |-> TRUE, availToSellQty |-> q]

ItemAt(i) ==
    [ hasSku |-> (i % 6 # 5),
      sku |-> ToString(i),
      hasShipNodes |-> (i % 6 # 0),
      shipNodes |->
          CASE i % 6 = 0 -> << >>
            [] i % 6 = 1 -> << >>
            [] i % 6 = 2 -> << ShipNode(i) >>
            [] i % 6 = 3 -> << [hasQty |-> FALSE, availToSellQty |-> i] >>
            [] i % 6 = 4 -> << ShipNode(i), ShipNode(i + 7) >>
            [] OTHER     -> << ShipNode(0), ShipNode(i) >> ]

\* The listing page the marketplace serves at offset o.  An "honest" server
\* serves its srv.n items, lim per page; an "endless" one serves one fresh
\* item at every offset and never an empty page.
ServerItems(s, o, lim) ==
    IF s.mode = "endless"
    THEN << ItemAt(o + 1) >>
    ELSE [k \in 1..(IF o < s.n THEN Min(lim, s.n - o) ELSE 0) |-> ItemAt(o + k)]

\* The totalCount values a page's headers may carry: the first page carries
\* the server's figure, a later page may carry anything.
ReportedTotals(s, o) ==
    IF o = 0
    THEN {[hasTotal |-> s.hasTotal, totalCount |-> s.total]}
    ELSE {[hasTotal |-> s.hasTotal, totalCount |-> s.total],
          [hasTotal |-> TRUE, totalCount |-> 0],
          [hasTotal |-> TRUE, totalCount |-> HugeTotal]}

\* The JSON bodies the inventory endpoint may answer at offset o.
InventoryBodies(s, o, lim) ==
    {[headers |-> h, inventory |-> ServerItems(s, o, lim)] : h \in ReportedTotals(s, o)}

\* How a request can end: a 2xx JSON body, a non-2xx status, a connection
\* failure, or a 2xx whose body is empty or not JSON.
Outcomes == {"ok", "http_error", "conn_error", "non_json"}
TransportErrors == {"http_error", "conn_error"}

\* What the request, raise_for_status and response.json() raise.  A body
\* that is not JSON raises a JSON decode error, which is a RequestException
\* in some versions of the HTTP library and a plain ValueError in others.
Raised(how) ==
    CASE how = "ok" -> {"none"}
      [] how \in TransportErrors -> {"RequestException"}
      [] how = "non_json" -> {"RequestException", "ValueError"}
      [] OTHER -> {"KeyError"}

Request(kind, o, how, exc) ==
    [kind |-> kind, offset |-> o, outcome |-> how, raised |-> exc]

(***************************************************************************)
(* Messages.                                                               *)
(***************************************************************************)
Errors == {"creds_missing", "auth_failed", "auth_uncaught", "inv_error",
           "inv_unexpected", "sales_unexpected"}
Warnings == {"sales_warning", "safety_limit", "zero_items"}

HasError(msgs) == \E k \in 1..Len(msgs) : msgs[k] \in Errors
HasWarning(msgs) == \E k \in 1..Len(msgs) : msgs[k] \in Warnings

(***************************************************************************)
(* st.cache_data(ttl=...)                                                  *)
(***************************************************************************)
TTL(f) == IF f = "inventory" THEN InventoryTTL ELSE SalesTTL

\* An entry is served while its age is below the time to live.
FreshEntryInclusive(entry, ttl) == entry.valid /\ now - entry.storedAt <= ttl
FreshEntry(entry, ttl) == entry.valid /\ now - entry.storedAt < ttl

EmptyEntry == [valid |-> FALSE, value |-> << >>, storedAt |-> 0]

CacheValid(f) == FreshEntry(cache[f], TTL(f))

\* The cached function returns: the value is stored with the time.
Return(f, value) ==
    /\ pc' = "idle"
    /\ outcome' = "returned"
    /\ result' = value
    /\ cache' = [cache EXCEPT ![f] = [valid |-> TRUE, value |-> value, storedAt |-> now]]

\* st.stop(): the script run ends; nothing is returned, nothing is cached.
Halt(msg) ==
    /\ pc' = "idle"
    /\ outcome' = "halted"
    /\ result' = << >>
    /\ ui' = Append(ui, msg)
    /\ UNCHANGED cache


(***************************************************************************)
(* get_access_token                                                        *)
(***************************************************************************)
TokenOutcomes == Outcomes \cup {"ok_no_access_token"}

\* st.secrets lacks the credentials: st.error, st.stop, before any request.
TokenNoCredentials ==
    /\ pc = "token"
    /\ ~secrets
    /\ Halt("creds_missing")
    /\ UNCHANGED << deployment, secrets, srv, now, callsLeft, fn, offset,
                    total_count, all_items, requests, cacheHit, recon >>

\* The message get_access_token ends with when the token request goes wrong:
\* a RequestException is handled (st.error, st.stop); a ValueError, or the
\* KeyError of a body without access_token, leaves the function uncaught.
TokenFailure(exc) ==
    IF exc = "RequestException" THEN "auth_failed" ELSE "auth_uncaught"

\* requests.post / raise_for_status / response.json() / ['access_token']:
\* whether the token request raises instead of giving a token.
TokenRaisesOnlyConn(how) == how = "conn_error"
TokenRaises(how) == how # "ok"

\* One POST to the token endpoint.  On success the caller goes on: the
\* inventory fetcher initialises its loop, the sales fetcher its request.
TokenRequest ==
    /\ pc = "token"
    /\ secrets
    /\ \E how \in TokenOutcomes : \E exc \in Raised(how) :
        /\ requests' = Append(requests, Request("token", 0, how, exc))
        /\ IF ~TokenRaises(how)
           THEN /\ IF fn = "inventory"
                   THEN /\ pc' = "loop"
                        /\ all_items' = << >>
                        /\ offset' = 0
                        /\ total_count' = 1
                   ELSE /\ pc' = "orders"
                        /\ UNCHANGED << all_items, offset, total_count >>
                /\ UNCHANGED << outcome, result, ui, cache >>
           ELSE /\ Halt(TokenFailure(exc))
                /\ UNCHANGED << all_items, offset, total_count >>
    /\ UNCHANGED << deployment, secrets, srv, now, callsLeft, fn, cacheHit, recon >>

(***************************************************************************)
(* fetch_wfs_inventory                                                     *)
(***************************************************************************)
\* while offset < total_count
LoopCondLe(o, t) == o <= t
LoopCond(o, t) == o < t

\* data.get('headers', {}).get('totalCount', 0)
ReadTotalCount(data) ==
    IF data.headers.hasTotal THEN data.headers.totalCount ELSE 0

\* total_count after a page at offset o: read on the first page only.
TotalAfter(o, t, data) == IF o = 0 THEN ReadTotalCount(data) ELSE t

\* data.get('payload', {}).get('inventory', [])
ItemsOnPage(data) == data.inventory

\* if offset == 0: ... if total_count == 0: return pd.DataFrame()
ZeroTotalReturnsNever(o, tc) == FALSE
ZeroTotalReturns(o, tc) == o = 0 /\ tc = 0

\* if not items_on_page: break
PageEndsLoopNever(items) == FALSE
PageEndsLoop(items) == items = << >>

\* all_items.extend(items_on_page)
Extend(all, items) == all \o items

\* if offset > 15000 (10000): break
SafetyBreakNever(o, dep) == FALSE
SafetyBreak(o, dep) == o > Ceiling(dep)

\* The stock of one raw item: the first ship node's availToSellQty.
CurrentStockLast(item) ==
    IF item.hasShipNodes /\ item.shipNodes # << >>
    THEN LET node == item.shipNodes[Len(item.shipNodes)]
         IN  IF node.hasQty THEN node.availToSellQty ELSE 0
    ELSE 0
CurrentStock(item) ==
    IF item.hasShipNodes /\ item.shipNodes # << >>
    THEN LET node == item.shipNodes[1]
         IN  IF node.hasQty THEN node.availToSellQty ELSE 0
    ELSE 0

ProcessItem(item) ==
    [ SKU |-> IF item.hasSku THEN item.sku ELSE "None",
      ProductName |-> IF item.hasSku THEN item.sku ELSE "N/A",
      CurrentStock |-> CurrentStock(item),
      InboundStock |-> 0 ]

\* for item in all_items: processed_data.append({...})
ProcessAll(items) == [k \in 1..Len(items) |-> ProcessItem(items[k])]

\* One turn of the loop: the page request and what follows it.
InvPage ==
    /\ pc = "loop"
    /\ LoopCond(offset, total_count)
    /\ \E how \in Outcomes : \E exc \in Raised(how) :
        /\ requests' = Append(requests, Request("inventory", offset, how, exc))
        /\ IF exc = "RequestException"
           THEN /\ Halt("inv_error")
                /\ UNCHANGED << offset, total_count, all_items >>
           ELSE IF exc # "none"
           THEN /\ Halt("inv_unexpected")
                /\ UNCHANGED << offset, total_count, all_items >>
           ELSE \E data \in InventoryBodies(srv, offset, limit) :
                  LET tc == TotalAfter(offset, total_count, data)
                      items == ItemsOnPage(data)
                  IN  /\ total_count' = tc
                      /\ IF ZeroTotalReturns(offset, tc)
                         THEN /\ Return("inventory", << >>)
                              /\ ui' = IF deployment = "walmart_api"
                                       THEN Append(ui, "zero_items") ELSE ui
                              /\ UNCHANGED << offset, all_items >>
                         ELSE IF PageEndsLoop(items)
                         THEN /\ pc' = "process"
                              /\ UNCHANGED << offset, all_items, outcome,
                                              result, ui, cache >>
                         ELSE /\ all_items' = Extend(all_items, items)
                              /\ offset' = offset + limit
                              /\ IF SafetyBreak(offset + limit, deployment)
                                 THEN /\ pc' = "process"
                                      /\ ui' = IF deployment = "walmart_api"
                                               THEN Append(ui, "safety_limit")
                                               ELSE ui
                                 ELSE /\ pc' = "loop"
                                      /\ ui' = ui
                              /\ UNCHANGED << outcome, result, cache >>
    /\ UNCHANGED << deployment, secrets, srv, now, callsLeft, fn, cacheHit, recon >>

\* The loop is left (condition false, or a break): the collected items are
\* processed and the DataFrame returned.
InvProcess ==
    /\ \/ pc = "process"
       \/ pc = "loop" /\ ~LoopCond(offset, total_count)
    /\ Return("inventory", ProcessAll(all_items))
    /\ UNCHANGED << deployment, secrets, srv, now, callsLeft, fn, offset,
                    total_count, all_items, requests, cacheHit, ui, recon >>


(***************************************************************************)
(* fetch_recent_sales_velocity                                             *)
(*                                                                         *)
(* srv.orders is the flat list of order lines the marketplace holds for    *)
(* the last seven days; a line with newOrder set opens the next order.     *)
(* A line's sku is "" when the line carries none; its amount is numeric    *)
(* (int() gives val) or not (int() raises ValueError).                     *)
(***************************************************************************)
RECURSIVE SplitOrders(_)
SplitOrders(lines) ==
    IF lines = << >> THEN << >>
    ELSE LET n == Len(lines)
             init == SubSeq(lines, 1, n - 1)
             prev == SplitOrders(init)
         IN  IF n = 1 \/ lines[n].newOrder
             THEN Append(prev, << lines[n] >>)
             ELSE [prev EXCEPT ![Len(prev)] = Append(@, lines[n])]

\* data.get('list', {}).get('elements', {}).get('order', [])
OrdersOf(s) == SplitOrders(s.orders)

\* int(line.get('orderLineQuantity', {}).get('amount', 0)) raises
Raises(line) == ~line.amount.numeric

IntOf(amount) == amount.val

\* if status != 'Cancelled' and sku
KeepLineAnyStatus(line) == line.sku # ""
KeepLine(line) == line.status # "Cancelled" /\ line.sku # ""

\* The rows appended to all_order_lines by one order's lines.
RECURSIVE CollectLines(_)
CollectLines(lines) ==
    IF lines = << >> THEN << >>
    ELSE LET rest == CollectLines(Tail(lines))
             line == Head(lines)
         IN  IF KeepLine(line)
             THEN << [SKU |-> line.sku, QtySold |-> IntOf(line.amount)] >> \o rest
             ELSE rest

\* for order in orders: for line in lines: ...
RECURSIVE CollectOrders(_)
CollectOrders(orders) ==
    IF orders = << >> THEN << >>
    ELSE CollectLines(Head(orders)) \o CollectOrders(Tail(orders))

\* Whether the double loop raises: int() is applied to every line, kept or not.
AnyRaises(orders) ==
    \E i \in 1..Len(orders) : \E j \in 1..Len(orders[i]) : Raises(orders[i][j])

\* groupby('SKU')['QtySold'].sum(): one row per SKU, in key order.
SkuOrder == << "A", "B" >>

RECURSIVE SumQty(_, _)
SumQty(rows, sku) ==
    IF rows = << >> THEN 0
    ELSE (IF Head(rows).SKU = sku THEN Head(rows).QtySold ELSE 0)
         + SumQty(Tail(rows), sku)

\* grouped_sales['Sales Last 7 Days'] / 7, kept as an exact fraction.
Velocity(units) == [num |-> units, den |-> WindowDays]

SalesRow(rows, sku) ==
    [ SKU |-> sku,
      SalesLast7Days |-> SumQty(rows, sku),
      Velocity |-> Velocity(SumQty(rows, sku)) ]

RECURSIVE GroupFrom(_, _)
GroupFrom(rows, k) ==
    IF k > Len(SkuOrder) THEN << >>
    ELSE (IF \E i \in 1..Len(rows) : rows[i].SKU = SkuOrder[k]
          THEN << SalesRow(rows, SkuOrder[k]) >> ELSE << >>)
         \o GroupFrom(rows, k + 1)

GroupBySku(rows) == GroupFrom(rows, 1)

\* The RequestException handler: st.warning, and the empty DataFrame.
SalesSoftFailHalts == Halt("sales_unexpected")
SalesSoftFail ==
    /\ Return("sales", << >>)
    /\ ui' = Append(ui, "sales_warning")

\* The one GET to the orders endpoint and the processing of its body.
SalesRequest ==
    /\ pc = "orders"
    /\ \E how \in Outcomes : \E exc \in Raised(how) :
        /\ requests' = Append(requests, Request("orders", 0, how, exc))
        /\ IF exc = "RequestException"
           THEN SalesSoftFail
           ELSE IF exc # "none"
           THEN Halt("sales_unexpected")
           ELSE LET orders == OrdersOf(srv)
                IN  IF orders = << >>
                    THEN Return("sales", << >>) /\ ui' = ui
                    ELSE IF AnyRaises(orders)
                    THEN Halt("sales_unexpected")
                    ELSE Return("sales", GroupBySku(CollectOrders(orders))) /\ ui' = ui
    /\ UNCHANGED << deployment, secrets, srv, now, callsLeft, fn, offset,
                    total_count, all_items, cacheHit, recon >>

(***************************************************************************)
(* The cached entry points.                                                *)
(***************************************************************************)
Fetchers == {"inventory", "sales"}

\* No fresh entry: the function body runs.
CallMiss(f) ==
    /\ pc = "idle"
    /\ callsLeft > 0
    /\ ~CacheValid(f)
    /\ callsLeft' = callsLeft - 1
    /\ fn' = f
    /\ pc' = "token"
    /\ requests' = << >>
    /\ outcome' = "none"
    /\ result' = << >>
    /\ ui' = << >>
    /\ cacheHit' = FALSE
    /\ offset' = 0
    /\ total_count' = 0
    /\ all_items' = << >>
    /\ UNCHANGED << deployment, secrets, srv, now, cache, recon >>

\* A fresh entry: the stored value is returned and the body does not run.
CallHit(f) ==
    /\ pc = "idle"
    /\ callsLeft > 0
    /\ CacheValid(f)
    /\ callsLeft' = callsLeft - 1
    /\ fn' = f
    /\ requests' = << >>
    /\ outcome' = "returned"
    /\ result' = cache[f].value
    /\ ui' = << >>
    /\ cacheHit' = TRUE
    /\ offset' = 0
    /\ total_count' = 0
    /\ all_items' = << >>
    /\ UNCHANGED << deployment, secrets, srv, now, cache, pc, recon >>

InvCallMiss == CallMiss("inventory")
InvCallHit == CallHit("inventory")
SalesCallMiss == CallMiss("sales")
SalesCallHit == CallHit("sales")

\* st.cache_data.clear()
ClearCache ==
    /\ pc = "idle"
    /\ \E f \in Fetchers : cache[f].valid
    /\ cache' = [f \in Fetchers |-> EmptyEntry]
    /\ UNCHANGED << deployment, secrets, srv, now, callsLeft, fn, pc, offset,
                    total_count, all_items, requests, outcome, result,
                    cacheHit, ui, recon >>

\* Time passes between invocations.
Ticks == {900}

Tick ==
    /\ pc = "idle"
    /\ \E d \in Ticks :
        /\ now + d <= MaxClock
        /\ now' = now + d
    /\ UNCHANGED << deployment, secrets, srv, cache, callsLeft, fn, pc, offset,
                    total_count, all_items, requests, outcome, result,
                    cacheHit, ui, recon >>

\* The marketplace's stock and orders change between invocations.
NewLine ==
    [ sku |-> "B", amount |-> [numeric |-> TRUE, val |-> 5],
      status |-> "Shipped", newOrder |-> TRUE ]

ServerUpdate ==
    /\ pc = "idle"
    /\ srv.n < MaxItems
    /\ srv' = [srv EXCEPT !.n = MaxItems, !.total = MaxItems,
                          !.orders = Append(srv.orders, NewLine)]
    /\ UNCHANGED << deployment, secrets, now, cache, callsLeft, fn, pc, offset,
                    total_count, all_items, requests, outcome, result,
                    cacheHit, ui, recon >>


(***************************************************************************)
(* Reconciliation engine (spec.md 4.4).  Fractions are kept exact:         *)
(* a velocity or a days-of-cover value is [num, den] with den > 0.         *)
(***************************************************************************)
Frac(n, d) == [num |-> n, den |-> d]

FracLe(a, b) == a.num * b.den <= b.num * a.den

\* Left join: the sales row of a sku, zero when there is none.
SalesOf(sales, sku) ==
    IF \E k \in 1..Len(sales) : sales[k].SKU = sku
    THEN LET k == CHOOSE k \in 1..Len(sales) : sales[k].SKU = sku
         IN  sales[k]
    ELSE [SKU |-> sku, SalesLast7Days |-> 0, Velocity |-> Frac(0, WindowDays)]

\* dailyVelocity > 0.01
Depleting(vel) == vel.num * 100 > vel.den

\* availableStock / dailyVelocity, or the sentinel.
DaysOfCover(stock, vel) ==
    IF Depleting(vel) THEN Frac(stock * vel.den, vel.num) ELSE Frac(Sentinel, 1)

AlertTierStrict(doc, threshold) ==
    IF doc.num < threshold * doc.den THEN "SHIP_NOW"
    ELSE IF doc.num < (threshold + WarningMargin) * doc.den THEN "WARNING"
    ELSE "OK"
AlertTier(doc, threshold) ==
    IF FracLe(doc, Frac(threshold, 1)) THEN "SHIP_NOW"
    ELSE IF FracLe(doc, Frac(threshold + WarningMargin, 1)) THEN "WARNING"
    ELSE "OK"

\* Clamped to 999 and rounded to an integer (half to even) for display.
DisplayDays(doc) ==
    LET c == IF FracLe(doc, Frac(Sentinel, 1)) THEN doc ELSE Frac(Sentinel, 1)
        q == c.num \div c.den
        r == c.num % c.den
    IN  IF 2 * r < c.den THEN q
        ELSE IF 2 * r > c.den THEN q + 1
        ELSE IF q % 2 = 0 THEN q ELSE q + 1

ReconRow(inv, sales, threshold) ==
    LET s == SalesOf(sales, inv.SKU)
        doc == DaysOfCover(inv.CurrentStock, s.Velocity)
    IN  [ SKU |-> inv.SKU,
          CurrentStock |-> inv.CurrentStock,
          SalesLast7Days |-> s.SalesLast7Days,
          Velocity |-> s.Velocity,
          daysOfCover |-> doc,
          displayDays |-> DisplayDays(doc),
          alertStatus |-> AlertTier(doc, threshold) ]

\* Ascending by days of cover, ties by higher stock first.
Before(a, b) ==
    \/ a.displayDays < b.displayDays
    \/ a.displayDays = b.displayDays /\ a.CurrentStock >= b.CurrentStock

RECURSIVE InsertRow(_, _)
InsertRow(sorted, row) ==
    IF sorted = << >> THEN << row >>
    ELSE IF Before(Head(sorted), row)
    THEN << Head(sorted) >> \o InsertRow(Tail(sorted), row)
    ELSE << row >> \o sorted

RECURSIVE SortRows(_)
SortRows(rows) ==
    IF rows = << >> THEN << >>
    ELSE InsertRow(SortRows(SubSeq(rows, 1, Len(rows) - 1)), rows[Len(rows)])

ReconIdle ==
    [ done |-> FALSE, inventory |-> << >>, sales |-> << >>,
      lead |-> 0, safety |-> 0, rows |-> << >> ]

Reconcile ==
    /\ ~recon.done
    /\ recon' = [recon EXCEPT
          !.done = TRUE,
          !.rows = SortRows([k \in 1..Len(recon.inventory) |->
                      ReconRow(recon.inventory[k], recon.sales,
                               recon.lead + recon.safety)])]
    /\ UNCHANGED << deployment, secrets, srv, now, cache, callsLeft, fn, pc,
                    offset, total_count, all_items, requests, outcome, result,
                    cacheHit, ui >>

(***************************************************************************)
(* Initial states.                                                         *)
(***************************************************************************)
Idle ==
    /\ now = 0
    /\ cache = [f \in Fetchers |-> EmptyEntry]
    /\ fn = "none"
    /\ pc = "idle"
    /\ offset = 0
    /\ total_count = 0
    /\ all_items = << >>
    /\ requests = << >>
    /\ outcome = "none"
    /\ result = << >>
    /\ cacheHit = FALSE
    /\ ui = << >>

\* The totalCount figures a marketplace may report on the first page.
Totals(dep) ==
    {0, 1, limit, limit + 1, MaxItems, Ceiling(dep), Ceiling(dep) + 1, HugeTotal}

Counts == {0, 1, limit, MaxItems}

Server(hasTotal, total, n, mode, orders) ==
    [hasTotal |-> hasTotal, total |-> total, n |-> n, mode |-> mode, orders |-> orders]

InvServers(dep) ==
    {Server(TRUE, t, n, "honest", << >>) : t \in Totals(dep), n \in Counts}
    \cup {Server(FALSE, 0, n, "honest", << >>) : n \in Counts}
    \cup {Server(TRUE, t, 0, "endless", << >>) : t \in Totals(dep)}
    \cup {Server(FALSE, 0, 0, "endless", << >>)}

Amounts ==
    {[numeric |-> TRUE, val |-> 3], [numeric |-> TRUE, val |-> 5],
     [numeric |-> FALSE, val |-> 0]}

Lines ==
    [sku : {"A", "B", ""}, amount : Amounts, status : {"Cancelled", "Shipped"},
     newOrder : BOOLEAN]

FlatOrders ==
    {ls \in UNION {[1..n -> Lines] : n \in 0..MaxLines} :
        ls # << >> => ls[1].newOrder}

SalesServers == {Server(TRUE, 1, 1, "honest", ls) : ls \in FlatOrders}

OneItemServer == Server(TRUE, 1, 1, "honest", << >>)

\* One invocation of either fetcher, against every marketplace.
Init ==
    /\ Idle
    /\ callsLeft = 1
    /\ recon = ReconIdle
    /\ deployment \in Deployments
    /\ \/ secrets = TRUE /\ srv \in InvServers(deployment)
       \/ secrets = TRUE /\ srv \in SalesServers
       \/ secrets = FALSE /\ srv = OneItemServer

Next ==
    \/ InvCallMiss
    \/ SalesCallMiss
    \/ TokenNoCredentials
    \/ TokenRequest
    \/ InvPage
    \/ InvProcess
    \/ SalesRequest

Spec == Init /\ [][Next]_vars

(***************************************************************************)
(* One invocation of the inventory fetcher.                                *)
(***************************************************************************)
InitInv ==
    /\ Idle
    /\ callsLeft = 1
    /\ recon = ReconIdle
    /\ deployment \in Deployments
    /\ \/ secrets = TRUE /\ srv \in InvServers(deployment)
       \/ secrets = FALSE /\ srv = OneItemServer

NextInv ==
    \/ InvCallMiss
    \/ TokenNoCredentials
    \/ TokenRequest
    \/ InvPage
    \/ InvProcess

SpecInv == InitInv /\ [][NextInv]_vars

\* The fetcher is straight-line synchronous code: a started step is taken.
FairSpecInv == SpecInv /\ WF_vars(NextInv)

(***************************************************************************)
(* The cache over several invocations, with time and invalidation.         *)
(***************************************************************************)
TwoLines ==
    << [sku |-> "A", amount |-> [numeric |-> TRUE, val |-> 3],
        status |-> "Shipped", newOrder |-> TRUE],
       [sku |-> "A", amount |-> [numeric |-> TRUE, val |-> 5],
        status |-> "Cancelled", newOrder |-> FALSE] >>

InitCache ==
    /\ Idle
    /\ callsLeft = MaxCalls
    /\ recon = ReconIdle
    /\ deployment \in Deployments
    /\ secrets \in BOOLEAN
    /\ srv = Server(TRUE, limit + 1, limit + 1, "honest", TwoLines)

NextCache ==
    \/ Next
    \/ InvCallHit
    \/ SalesCallHit
    \/ ClearCache
    \/ Tick
    \/ ServerUpdate

SpecCache == InitCache /\ [][NextCache]_vars

(***************************************************************************)
(* The reconciliation engine alone, over two products.                     *)
(***************************************************************************)
Stocks == {0, 50, 100}
UnitsSold == {0, 1, 14, 70}
LeadTimes == {0, 14, 985}
SafetyBuffers == {0, 7}

InvRow(sku, stock) ==
    [SKU |-> sku, ProductName |-> sku, CurrentStock |-> stock, InboundStock |-> 0]

ReconInventories ==
    {<< InvRow("A", a), InvRow("B", b) >> : a \in Stocks, b \in Stocks}

ReconSales ==
    {<< >>} \cup {<< SalesRow(<< [SKU |-> "A", QtySold |-> u] >>, "A") >> : u \in UnitsSold}
    \cup {<< SalesRow(<< [SKU |-> "A", QtySold |-> u] >>, "A"),
             SalesRow(<< [SKU |-> "B", QtySold |-> 14] >>, "B") >> : u \in UnitsSold}

InitRecon ==
    /\ Idle
    /\ callsLeft = 0
    /\ deployment = "app"
    /\ secrets = TRUE
    /\ srv = Server(TRUE, 1, 1, "honest", << >>)
    /\ \E i \in ReconInventories, s \in ReconSales, l \in LeadTimes, b \in SafetyBuffers :
          recon = [ done |-> FALSE, inventory |-> i, sales |-> s,
                    lead |-> l, safety |-> b, rows |-> << >> ]

NextRecon == Reconcile

SpecRecon == InitRecon /\ [][NextRecon]_vars


(***************************************************************************)
(* Properties.                                                             *)
(***************************************************************************)
IsInventory(r) == r.kind = "inventory"
IsToken(r) == r.kind = "token"

InvReqs == SelectSeq(requests, IsInventory)
TokenReqs == SelectSeq(requests, IsToken)

Finished == pc = "idle" /\ outcome # "none"

\* The invocation ran the inventory fetcher's body and has ended.
InvRan == fn = "inventory" /\ Finished /\ ~cacheHit
SalesRan == fn = "sales" /\ Finished /\ ~cacheHit

LastReq == requests[Len(requests)]

\* ceil(t / limit) offsets: 0, limit, 2 * limit, ... < t
ExpectedOffsets(t) == [k \in 1..((t + limit - 1) \div limit) |-> (k - 1) * limit]

\* The items of the pages served at offsets[lo..hi], in order.
RECURSIVE PagesBetween(_, _, _)
PagesBetween(offsets, lo, hi) ==
    IF lo > hi THEN << >>
    ELSE IF lo = hi THEN ServerItems(srv, offsets[lo], limit)
    ELSE LET mid == (lo + hi) \div 2
         IN  PagesBetween(offsets, lo, mid) \o PagesBetween(offsets, mid + 1, hi)

\* The items of the pages served at the first n of the given offsets, in order.
PagesAt(offsets, n) == PagesBetween(offsets, 1, n)

EveryPageNonEmpty(offsets) ==
    \A k \in 1..Len(offsets) : ServerItems(srv, offsets[k], limit) # << >>

\* C1: when the first page reports 0 < T <= ceiling and every requested page
\* is non-empty, the fetcher that returns has requested exactly the offsets
\* 0, 50, 100, ... < T in that order (totalCount on later pages being
\* ignored) and has accumulated the items of those pages in request order.
C1_OffsetsAndAccumulation ==
    ( /\ InvRan
      /\ outcome = "returned"
      /\ srv.hasTotal
      /\ 0 < srv.total
      /\ srv.total <= Ceiling(deployment)
      /\ EveryPageNonEmpty(ExpectedOffsets(srv.total)) )
    => LET want == ExpectedOffsets(srv.total)
       IN  /\ Len(InvReqs) = Len(want)
           /\ \A k \in 1..Len(want) : InvReqs[k].offset = want[k]
           /\ all_items = PagesAt(want, Len(want))
           /\ Len(result) = Len(all_items)

\* T = 120 served in full: three requests, 120 items, the last page partial.
C1_Witness ==
    /\ InvRan
    /\ outcome = "returned"
    /\ srv.mode = "honest"
    /\ srv.total = 120
    /\ srv.n = 120
    /\ Len(InvReqs) = 3
    /\ InvReqs[3].offset = 100
    /\ Len(all_items) = 120

\* C7: a first page that reports totalCount 0, or none, makes the fetcher
\* return an empty result after exactly one inventory request, without
\* error and without halting, whatever items the page carries.
C7_ZeroTotalReturnsEmpty ==
    ( /\ fn = "inventory"
      /\ ~cacheHit
      /\ InvReqs # << >>
      /\ InvReqs[1].outcome = "ok"
      /\ (~srv.hasTotal \/ srv.total = 0) )
    => /\ Len(InvReqs) = 1
       /\ pc = "idle"
       /\ outcome = "returned"
       /\ result = << >>
       /\ ~HasError(ui)

\* The first page reports 0 and still carries items; nothing is returned.
C7_Witness ==
    /\ InvRan
    /\ outcome = "returned"
    /\ srv.mode = "honest"
    /\ srv.hasTotal
    /\ srv.total = 0
    /\ srv.n = MaxItems
    /\ Len(InvReqs) = 1
    /\ result = << >>

ExpectedStock(item) ==
    IF ~item.hasShipNodes \/ Len(item.shipNodes) = 0 THEN 0
    ELSE IF item.shipNodes[1].hasQty THEN item.shipNodes[1].availToSellQty
    ELSE 0

\* C10: the fetcher that returns emits one record per accumulated raw item,
\* in order; availableStock is 0 without ship nodes and otherwise the first
\* ship node's availToSellQty (0 when it has none); inboundStock is 0.
C10_OneRecordPerItem ==
    (InvRan /\ outcome = "returned")
    => /\ Len(result) = Len(all_items)
       /\ \A k \in 1..Len(all_items) :
            /\ result[k].SKU = (IF all_items[k].hasSku THEN all_items[k].sku ELSE "None")
            /\ result[k].CurrentStock = ExpectedStock(all_items[k])
            /\ result[k].InboundStock = 0

\* A returned listing that holds every item shape, several ship nodes included.
C10_Witness ==
    /\ InvRan
    /\ outcome = "returned"
    /\ Len(result) >= 6
    /\ Len(all_items[4].shipNodes) = 2
    /\ result[4].CurrentStock = 4
    /\ ~all_items[6].hasShipNodes
    /\ result[6].CurrentStock = 0


Fatal == outcome = "halted" /\ result = << >> /\ HasError(ui)

\* The records built from the pages requested before the last request.
RecordsSoFar ==
    ProcessAll(PagesAt([k \in 1..Len(InvReqs) |-> InvReqs[k].offset], Len(InvReqs) - 1))

\* A transport error on any page is fatal and returns nothing.
TransportErrorIsFatal ==
    (InvRan /\ InvReqs # << >> /\ LastReq.outcome \in TransportErrors) => Fatal

\* C3 as stated: an empty or non-JSON body on a page other than the first
\* ends the loop silently and the records of the pages so far are returned,
\* while a transport error on any page is fatal.
C3_Original ==
    /\ ( /\ InvRan
         /\ InvReqs # << >>
         /\ LastReq.outcome = "non_json"
         /\ LastReq.offset > 0 )
       => /\ outcome = "returned"
          /\ ~HasError(ui)
          /\ result = RecordsSoFar
    /\ TransportErrorIsFatal

\* C3 amended: a page whose JSON body carries no inventory items ends the
\* loop silently (it is the last request, and the fetcher returns the
\* records of the pages before it without error); a body that is empty or
\* not JSON is fatal on every page, as a transport error is.
C3_EmptyPageEndsNonJsonFatal ==
    /\ \A k \in 1..Len(requests) :
         ( /\ requests[k].kind = "inventory"
           /\ requests[k].outcome = "ok"
           /\ ServerItems(srv, requests[k].offset, limit) = << >> )
         => /\ k = Len(requests)
            /\ pc \in {"process", "idle"}
            /\ outcome # "halted"
            /\ ~HasError(ui)
            /\ Finished => (outcome = "returned" /\ result = RecordsSoFar)
    /\ (InvRan /\ InvReqs # << >> /\ LastReq.outcome = "non_json") => Fatal
    /\ TransportErrorIsFatal

\* 120 items announced, 50 served: the second page is empty and the 50
\* records of the first page are returned.
C3_Witness ==
    /\ InvRan
    /\ outcome = "returned"
    /\ srv.mode = "honest"
    /\ srv.total = MaxItems
    /\ srv.n = limit
    /\ Len(InvReqs) = 2
    /\ Len(result) = limit
    /\ ui = << >>

\* The requested offsets are 0, 50, 100, ... and none exceeds the ceiling;
\* the loop is never in progress beyond the ceiling.
C9_OffsetsBounded ==
    /\ \A k \in 1..Len(InvReqs) :
         /\ InvReqs[k].offset = (k - 1) * limit
         /\ InvReqs[k].offset <= Ceiling(deployment)
    /\ pc = "loop" => offset <= Ceiling(deployment)
    /\ Len(InvReqs) <= Ceiling(deployment) \div limit + 1

\* C9: the pagination loop terminates for every server, also one that
\* reports a huge totalCount and never serves an empty page; the offsets
\* requested are strictly increasing multiples of 50, none above the ceiling.
C9_LoopTerminates == []C9_OffsetsBounded /\ <>Finished

\* A server that never serves an empty page, stopped by the ceiling: the
\* last request is the one at the ceiling itself.
C9_Witness ==
    /\ InvRan
    /\ outcome = "returned"
    /\ srv.mode = "endless"
    /\ srv.total = HugeTotal
    /\ LastReq.offset = Ceiling(deployment)
    /\ Len(all_items) = Ceiling(deployment) \div limit + 1


\* C4: without credentials no request of any kind is issued; a token request
\* that fails (transport error or non-2xx) is the invocation's only request:
\* it is not retried, no inventory or orders request follows, and the
\* fetcher halts with an error and no result, the sales fetcher included.
C4_TokenFailureIsFatal ==
    /\ ~secrets => requests = << >>
    /\ (~secrets /\ fn # "none" /\ pc = "idle") => Fatal
    /\ Len(TokenReqs) <= 1
    /\ requests # << >> => requests[1].kind = "token"
    /\ (requests # << >> /\ requests[1].outcome \in TransportErrors)
       => /\ Len(requests) = 1
          /\ pc = "idle"
          /\ Fatal
          /\ ~HasWarning(ui)
          /\ ~cache[fn].valid

\* The sales fetcher's token request is refused: it halts, nothing else is sent.
C4_Witness ==
    /\ fn = "sales"
    /\ Finished
    /\ requests = << Request("token", 0, "http_error", "RequestException") >>
    /\ outcome = "halted"
    /\ ui = << "auth_failed" >>

OrdersRequested == requests # << >> /\ LastReq.kind = "orders"

SoftFailure ==
    /\ outcome = "returned"
    /\ result = << >>
    /\ HasWarning(ui)
    /\ ~HasError(ui)

\* C2 as stated: every transport or parse error of the sales fetcher
\* (non-2xx, connection failure, non-JSON body, malformed order line) gives
\* a warning and an empty result, and execution is never halted.  The
\* non-JSON body is taken here with the HTTP library that favours the
\* claim, the one raising its JSON error as a RequestException.
C2_Original ==
    ( /\ SalesRan
      /\ OrdersRequested
      /\ \/ LastReq.outcome \in TransportErrors
         \/ LastReq.outcome = "non_json" /\ LastReq.raised = "RequestException"
         \/ LastReq.outcome = "ok" /\ AnyRaises(OrdersOf(srv)) )
    => SoftFailure

\* C2 amended: a transport error (non-2xx or connection failure) gives a
\* warning and an empty result without halting; a malformed order line
\* (non-numeric quantity) is fatal; a non-JSON body is non-fatal where the
\* HTTP library raises its JSON error as a RequestException, fatal otherwise.
C2_TransportSoftParseFatal ==
    /\ (SalesRan /\ OrdersRequested /\ LastReq.outcome \in TransportErrors)
       => (SoftFailure /\ ui = << "sales_warning" >> /\ cache.sales.valid)
    /\ (SalesRan /\ OrdersRequested /\ LastReq.outcome = "ok"
        /\ OrdersOf(srv) # << >> /\ AnyRaises(OrdersOf(srv)))
       => Fatal
    /\ (SalesRan /\ OrdersRequested /\ LastReq.outcome = "non_json")
       => IF LastReq.raised = "RequestException" THEN SoftFailure ELSE Fatal

\* The orders request is refused: a warning, an empty result, no halt.
C2_Witness ==
    /\ SalesRan
    /\ requests = << Request("token", 0, "ok", "none"),
                     Request("orders", 0, "http_error", "RequestException") >>
    /\ outcome = "returned"
    /\ result = << >>
    /\ ui = << "sales_warning" >>

\* The lines of the response that count for a sku: not cancelled.
Counted(sku) ==
    {k \in 1..Len(srv.orders) :
        srv.orders[k].sku = sku /\ srv.orders[k].status # "Cancelled"}

RECURSIVE SumOver(_)
SumOver(ks) ==
    IF ks = {} THEN 0
    ELSE LET k == CHOOSE k \in ks : TRUE
         IN  srv.orders[k].amount.val + SumOver(ks \ {k})

RowsOf(sku) == {k \in 1..Len(result) : result[k].SKU = sku}

\* C5: from an orders response the sales fetcher returns exactly one record
\* per sku that has a line that is not cancelled; its units are the sum of
\* the quantities of those lines across all orders and its velocity is that
\* sum over 7; a sku whose lines are all cancelled has no record.
C5_SalesAggregation ==
    (SalesRan /\ outcome = "returned" /\ OrdersRequested /\ LastReq.outcome = "ok")
    => /\ \A sku \in {"A", "B"} :
            IF Counted(sku) = {}
            THEN RowsOf(sku) = {}
            ELSE /\ Cardinality(RowsOf(sku)) = 1
                 /\ \A k \in RowsOf(sku) :
                      /\ result[k].SalesLast7Days = SumOver(Counted(sku))
                      /\ result[k].Velocity.num = result[k].SalesLast7Days
                      /\ result[k].Velocity.den = 7
       /\ \A k \in 1..Len(result) : result[k].SKU \in {"A", "B"}

\* One order with a cancelled line of 5 and an active line of 3: 3 units.
C5_Witness ==
    /\ SalesRan
    /\ outcome = "returned"
    /\ Len(srv.orders) = 2
    /\ srv.orders[1].sku = "A" /\ srv.orders[1].status = "Cancelled"
    /\ srv.orders[1].amount.val = 5
    /\ srv.orders[2].sku = "A" /\ srv.orders[2].status = "Shipped"
    /\ srv.orders[2].amount.val = 3 /\ ~srv.orders[2].newOrder
    /\ result = << [SKU |-> "A", SalesLast7Days |-> 3, Velocity |-> Frac(3, 7)] >>


Threshold == recon.lead + recon.safety

\* The inventory row a reconciled row was joined from.
StockOf(sku) ==
    LET k == CHOOSE k \in 1..Len(recon.inventory) : recon.inventory[k].SKU = sku
    IN  recon.inventory[k].CurrentStock

\* The units sold the sales list gives for a sku; 0 without a sales record.
UnitsOf(sku) ==
    IF \E k \in 1..Len(recon.sales) : recon.sales[k].SKU = sku
    THEN LET k == CHOOSE k \in 1..Len(recon.sales) : recon.sales[k].SKU = sku
         IN  recon.sales[k].SalesLast7Days
    ELSE 0

\* C6: every reconciled row has daysOfCover = availableStock / dailyVelocity
\* when dailyVelocity > 0.01 and 999 otherwise (also without a sales record),
\* and exactly one tier: SHIP_NOW if daysOfCover <= threshold, else WARNING if
\* daysOfCover <= threshold + 7, else OK; a row with zero velocity is OK
\* whenever threshold + 7 < 999.
C6_DaysOfCoverAndTier ==
    recon.done =>
      /\ Len(recon.rows) = Len(recon.inventory)
      /\ \A k \in 1..Len(recon.rows) :
           LET r == recon.rows[k]
               stock == StockOf(r.SKU)
               units == UnitsOf(r.SKU)
               d == r.daysOfCover
           IN  /\ d.den > 0
               \* dailyVelocity = units / 7 > 0.01  <=>  100 * units > 7
               /\ IF 100 * units > 7
                  THEN d.num * units = stock * 7 * d.den
                  ELSE d.num = 999 /\ d.den = 1
               /\ r.alertStatus \in {"SHIP_NOW", "WARNING", "OK"}
               /\ r.alertStatus = "SHIP_NOW" <=> d.num <= Threshold * d.den
               /\ r.alertStatus = "WARNING" <=>
                    /\ d.num > Threshold * d.den
                    /\ d.num <= (Threshold + 7) * d.den
               /\ r.alertStatus = "OK" <=> d.num > (Threshold + 7) * d.den
               /\ (units = 0 /\ Threshold + 7 < 999) => r.alertStatus = "OK"
               /\ (stock = 50 /\ units = 70 /\ Threshold = 21) => r.alertStatus = "SHIP_NOW"
               /\ (stock = 50 /\ units = 14 /\ Threshold = 21) => r.alertStatus = "WARNING"

\* stock 50 at velocity 2 under threshold 21 is a WARNING; beside it a
\* product without sales is OK at 999 days.
C6_Witness ==
    /\ recon.done
    /\ Threshold = 21
    /\ \E k \in 1..Len(recon.rows) :
         /\ recon.rows[k].CurrentStock = 50
         /\ recon.rows[k].SalesLast7Days = 14
         /\ recon.rows[k].daysOfCover = Frac(350, 14)
         /\ recon.rows[k].alertStatus = "WARNING"
    /\ \E k \in 1..Len(recon.rows) :
         /\ recon.rows[k].SalesLast7Days = 0
         /\ recon.rows[k].daysOfCover = Frac(999, 1)
         /\ recon.rows[k].alertStatus = "OK"

\* An invocation of fetcher f begins in this step.
Invoked(f) == callsLeft' = callsLeft - 1 /\ fn' = f

\* The entry of f is within its time to live: 30 minutes for the inventory,
\* 60 minutes for the sales.
Fresh(f) ==
    /\ cache[f].valid
    /\ now - cache[f].storedAt < (IF f = "inventory" THEN 1800 ELSE 3600)

\* What the last fetch of f returned is what the cache holds.
SnapshotKept ==
    \A f \in Fetchers :
        (fn = f /\ Finished /\ outcome = "returned" /\ ~cacheHit)
        => (cache[f].valid => cache[f].value = result)

\* C8: once a fetcher has returned a result, every invocation within 30
\* minutes (inventory) or 60 minutes (sales) and without invalidation returns
\* that snapshot and issues no request; the first invocation after expiry
\* or invalidation runs the fetch again.
C8_CachedWithinTTL ==
    /\ []SnapshotKept
    /\ [][\A f \in Fetchers :
            Invoked(f) =>
              IF Fresh(f)
              THEN /\ outcome' = "returned"
                   /\ result' = cache[f].value
                   /\ requests' = << >>
                   /\ pc' = "idle"
                   /\ cache' = cache
              ELSE /\ pc' = "token"
                   /\ outcome' = "none"
                   /\ cacheHit' = FALSE]_vars
    /\ [][(\A f \in Fetchers : cache'[f].valid => cache[f].valid)
          \/ (\E f \in Fetchers : fn = f /\ pc # "idle" /\ outcome' = "returned"
                /\ cache'[f] = [valid |-> TRUE, value |-> result', storedAt |-> now])]_vars

\* 15 minutes after the inventory was fetched, and after the marketplace's
\* stock has changed, the invocation is answered with the stored snapshot.
C8_Witness ==
    /\ fn = "inventory"
    /\ cacheHit
    /\ outcome = "returned"
    /\ requests = << >>
    /\ now - cache.inventory.storedAt = 900
    /\ result = cache.inventory.value
    /\ Len(result) = limit + 1
    /\ srv.n = MaxItems

====
